---- MODULE Spec2Model ----
(***************************************************************************)
(* Model of pkg/engine/handlers/validation/validate_cel.go:                *)
(* validateCELHandler.Process and collectParams.  One behaviour is one     *)
(* call of Process; pc is the position of the call in the function body.   *)
(* The collaborators (exception matcher, compiler, resource client,        *)
(* evaluator) are nondeterministic: every answer their interface allows.   *)
(***************************************************************************)
EXTENDS Integers, Sequences, FiniteSets, TLC

\* ---------------------------------------------------------------- bounds
\* largest number of objects a ListResource call returns
MaxParams == 2
\* largest number of decisions in one ValidateResult
MaxDecisions == 2
\* a call is repeated when it resolved at most this many parameters
MaxRerunParams == 1

\* ---------------------------------------------------------------- data
\* schema.GroupVersionKind values of the request
NamespaceGVK == [Group |-> "", Version |-> "v1", Kind |-> "Namespace"]
GVKs ==
    { NamespaceGVK,
      [Group |-> "", Version |-> "v1", Kind |-> "Pod"],
      [Group |-> "x", Version |-> "v1", Kind |-> "Namespace"] }

\* unstructured.Unstructured: Object == nil, or the metadata Process reads
NilObject == [present |-> FALSE, namespace |-> "", name |-> ""]
Resources ==
    { NilObject,
      [present |-> TRUE, namespace |-> "", name |-> "new"],
      [present |-> TRUE, namespace |-> "a", name |-> "new"] }
OldResources ==
    { NilObject,
      [present |-> TRUE, namespace |-> "b", name |-> "old"] }

\* admissionregistrationv1alpha1.ParamRef; ParameterNotFoundAction is a
\* pointer: "nil", or the AllowAction / DenyAction constant
NotFoundActions == {"nil", "Allow", "Deny"}
ParamRefs ==
    [ Name : {"", "cfg"}, Namespace : {"", "pns"}, Selector : BOOLEAN,
      ParameterNotFoundAction : NotFoundActions ]
NoParamRef ==
    [Name |-> "", Namespace |-> "", Selector |-> FALSE,
     ParameterNotFoundAction |-> "nil"]

\* rule.Validation.CEL: HasParam() and, when it holds, ParamKind / ParamRef.
\* apiVersionOK says whether schema.ParseGroupVersion accepts
\* ParamKind.APIVersion.
\* Message is rule.Validation.Message.
RuleMessages == {"rulemsg"}
Rules ==
    [ hasParam : {FALSE}, apiVersionOK : {TRUE}, paramRef : {NoParamRef},
      Message : RuleMessages ]
    \cup [ hasParam : {TRUE}, apiVersionOK : BOOLEAN, paramRef : ParamRefs,
           Message : RuleMessages ]

\* the Message fields of rule.Validation.CEL.Expressions, the slice whose
\* backing array the caller's rule and Process's copy of it share
ExpressionMessages == { <<"", "own">> }

\* the exceptions argument as MatchesException and MetaNamespaceKeyFunc see
\* it: no exception matches, one matches, one matches and has no key
Exceptions == {"none", "match", "matchNoKey"}

\* runtime.Object parameters: 0 is the nil parameter slot, 1..MaxParams are
\* the items a list returns, NamedParam is the object GetResource returns
NilParam == 0
NamedParam == MaxParams + 1
ListedParams == 1 .. MaxParams

RECURSIVE SeqsUpTo(_, _)
SeqsUpTo(S, n) ==
    IF n = 0 THEN { <<>> }
    ELSE LET shorter == SeqsUpTo(S, n - 1)
         IN  shorter \cup { Append(s, x) : s \in shorter, x \in S }

\* what ListResource may return in paramList.Items: the n objects the
\* selector matches, in the order the store lists them (n, n-1, .. 1)
ParamLists == { [i \in 1 .. n |-> n + 1 - i] : n \in 0 .. MaxParams }

\* validatingadmissionpolicy.PolicyDecision: Action, Evaluation, Message
ActionAdmit == "admit"
ActionDeny == "deny"
EvalAdmit == "admit"
EvalError == "error"
EvalDeny == "deny"
DecisionKinds ==
    { [Action |-> ActionAdmit, Evaluation |-> EvalAdmit],
      [Action |-> ActionAdmit, Evaluation |-> EvalError],
      [Action |-> ActionDeny, Evaluation |-> EvalDeny],
      [Action |-> ActionDeny, Evaluation |-> EvalError] }

\* the message of decision j of invocation k: the evaluator's messages are
\* pairwise distinct, so a verdict's message identifies the decision
Labels ==
    << <<"d11", "d12", "d13", "d14">>, <<"d21", "d22", "d23", "d24">>,
       <<"d31", "d32", "d33", "d34">>, <<"d41", "d42", "d43", "d44">> >>
DecisionMsg(k, j) == Labels[k][j]

Decision(kind, k, j) ==
    [Action |-> kind.Action, Evaluation |-> kind.Evaluation,
     Message |-> DecisionMsg(k, j)]

\* validatingadmissionpolicy.ValidateResult: Decisions and AuditAnnotations
\* (hasAudit: the AuditAnnotations slice is non-nil)
EmptyResult == [Decisions |-> << >>, hasAudit |-> FALSE]
ResultsOf(k) ==
    { EmptyResult, [Decisions |-> << >>, hasAudit |-> TRUE] }
    \cup { [Decisions |-> [j \in 1 .. Len(ks) |-> Decision(ks[j], k, j)],
            hasAudit |-> FALSE] :
           ks \in SeqsUpTo(DecisionKinds, MaxDecisions) \ { << >> } }

\* corev1.Namespace pointer handed to the evaluator
NilNamespace == [kind |-> "nil", name |-> ""]
FetchedNamespace(n) == [kind |-> "fetched", name |-> n]
SynthesizedNamespace(n) == [kind |-> "synthesized", name |-> n]

\* engineapi.RuleResponse
\* (cause: the text of the err argument of RuleError, "" for nil)
Response(status, msg, cause) ==
    [status |-> status, message |-> msg, cause |-> cause, exception |-> FALSE]
RuleSkip(msg) == Response("skip", msg, "")
RulePass(msg) == Response("pass", msg, "")
RuleFail(msg) == Response("fail", msg, "")
RuleError(msg, cause) == Response("error", msg, cause)
WithException(r) == [r EXCEPT !.exception = TRUE]
WithResponses(r) == << r >>
WithError(msg, cause) == WithResponses(RuleError(msg, cause))

\* ---------------------------------------------------------------- aggregation
\* datautils.DeepEqual(validationResult, ValidateResult{})
IsEmptySentinel(r) == r.Decisions = << >> /\ ~r.hasAudit

NoVerdict == Response("none", "", "")

\* variant: the evaluation is tested before the action
DecisionVerdictErrorFirst(d) ==
    IF d.Evaluation = EvalError THEN RuleError(d.Message, "")
    ELSE IF d.Action = ActionDeny THEN RuleFail(d.Message) ELSE NoVerdict

\* the switch on decision.Action inside the loop over Decisions
DecisionVerdict(d) ==
    IF d.Action = ActionAdmit
    THEN IF d.Evaluation = EvalError THEN RuleError(d.Message, "")
         ELSE NoVerdict
    ELSE IF d.Action = ActionDeny THEN RuleFail(d.Message) ELSE NoVerdict

\* variant: the last decision with a verdict decides, not the first
RECURSIVE ScanDecisionsLast(_, _)
ScanDecisionsLast(ds, j) ==
    IF j > Len(ds) THEN NoVerdict
    ELSE LET v == ScanDecisionsLast(ds, j + 1)
         IN  IF v # NoVerdict THEN v ELSE DecisionVerdict(ds[j])

\* for _, decision := range validationResult.Decisions
RECURSIVE ScanDecisions(_, _)
ScanDecisions(ds, j) ==
    IF j > Len(ds) THEN NoVerdict
    ELSE LET v == DecisionVerdict(ds[j])
         IN  IF v # NoVerdict THEN v ELSE ScanDecisions(ds, j + 1)

\* variant: the test for the empty result is missing
ResultVerdictNoSentinel(r) == ScanDecisions(r.Decisions, 1)

\* the check made on one validationResult
ResultVerdict(r) ==
    IF IsEmptySentinel(r) THEN RuleSkip("cel preconditions not met")
    ELSE ScanDecisions(r.Decisions, 1)

\* for _, validationResult := range validationResults, then the pass
RECURSIVE ScanResults(_, _)
ScanResults(rs, i) ==
    IF i > Len(rs) THEN RulePass("Validation rule passed.")
    ELSE LET v == ResultVerdict(rs[i])
         IN  IF v # NoVerdict THEN v ELSE ScanResults(rs, i + 1)

\* variant: one response per result instead of a return at the first verdict
AggregateEach(rs) ==
    IF Len(rs) = 0 THEN WithResponses(ScanResults(rs, 1))
    ELSE [i \in 1 .. Len(rs) |-> ScanResults(<< rs[i] >>, 1)]

Aggregate(rs) == WithResponses(ScanResults(rs, 1))

\* ---------------------------------------------------------------- collectParams
\* one call on the resource client, with its answer
Call(op, namespace, name, result, items) ==
    [op |-> op, namespace |-> namespace, name |-> name, result |-> result,
     items |-> items]

\* the answers the resource client gives to one collectParams call
ClientAnswers ==
    [ isNamespaced : {"err", "yes", "no"}, getResource : {"err", "ok"},
      listOK : BOOLEAN, items : ParamLists ]

Outcome(params, err, calls, panic) ==
    [params |-> params, err |-> err, calls |-> calls, panic |-> panic]

\* variant: the request namespace is tested before the override
ParamsNamespaceRequestFirst(isNamespaced, paramRef, namespace) ==
    IF isNamespaced
    THEN IF namespace = ""
         THEN [err |-> "cannot use namespaced paramRef to match cluster-scoped resources",
               ns |-> ""]
         ELSE IF paramRef.Namespace # ""
              THEN [err |-> "", ns |-> paramRef.Namespace]
              ELSE [err |-> "", ns |-> namespace]
    ELSE IF paramRef.Namespace # ""
         THEN [err |-> "paramRef.namespace must not be provided for a cluster-scoped paramKind",
               ns |-> ""]
         ELSE [err |-> "", ns |-> ""]

\* the scoping check: the lookup namespace, or the error it returns
ParamsNamespace(isNamespaced, paramRef, namespace) ==
    IF isNamespaced
    THEN IF paramRef.Namespace # ""
         THEN [err |-> "", ns |-> paramRef.Namespace]
         ELSE IF namespace = ""
              THEN [err |-> "cannot use namespaced paramRef to match cluster-scoped resources",
                    ns |-> ""]
              ELSE [err |-> "", ns |-> namespace]
    ELSE IF paramRef.Namespace # ""
         THEN [err |-> "paramRef.namespace must not be provided for a cluster-scoped paramKind",
               ns |-> ""]
         ELSE [err |-> "", ns |-> ""]

\* variant: the wrong action constant
NotFoundDeniedOnAllow(params, paramRef) ==
    Len(params) = 0 /\ paramRef.ParameterNotFoundAction = "Allow"

\* variant: an unset action is taken for Deny
NotFoundDeniedUnlessAllow(params, paramRef) ==
    Len(params) = 0 /\ paramRef.ParameterNotFoundAction # "Allow"

\* the final not-found check
NotFoundDenied(params, paramRef) ==
    Len(params) = 0 /\ paramRef.ParameterNotFoundAction = "Deny"

\* variant: a failed list counts as an empty list
LookupIgnoreListError(paramRef, pns, ans, calls) ==
    IF paramRef.Name # ""
    THEN LET c == Call("GetResource", pns, paramRef.Name, ans.getResource, << >>)
         IN  IF ans.getResource = "err"
             THEN Outcome(<< >>, "get failed", Append(calls, c), FALSE)
             ELSE Outcome(<< NamedParam >>, "", Append(calls, c), FALSE)
    ELSE LET listed == paramRef.Selector
             c == Call("ListResource", pns, "",
                       IF ans.listOK THEN "ok" ELSE "err",
                       IF ans.listOK THEN ans.items ELSE << >>)
             calls2 == IF listed THEN Append(calls, c) ELSE calls
             params == IF listed /\ ans.listOK THEN ans.items ELSE << >>
         IN  IF NotFoundDenied(params, paramRef)
             THEN Outcome(<< >>, "no params found", calls2, FALSE)
             ELSE Outcome(params, "", calls2, FALSE)

\* variant: the selector is looked at before the name
LookupSelectorFirst(paramRef, pns, ans, calls) ==
    IF paramRef.Selector
    THEN LET c == Call("ListResource", pns, "",
                       IF ans.listOK THEN "ok" ELSE "err",
                       IF ans.listOK THEN ans.items ELSE << >>)
         IN  IF ~ans.listOK
             THEN Outcome(<< >>, "list failed", Append(calls, c), FALSE)
             ELSE IF NotFoundDenied(ans.items, paramRef)
                  THEN Outcome(<< >>, "no params found", Append(calls, c), FALSE)
                  ELSE Outcome(ans.items, "", Append(calls, c), FALSE)
    ELSE IF paramRef.Name # ""
    THEN LET c == Call("GetResource", pns, paramRef.Name, ans.getResource, << >>)
         IN  IF ans.getResource = "err"
             THEN Outcome(<< >>, "get failed", Append(calls, c), FALSE)
             ELSE Outcome(<< NamedParam >>, "", Append(calls, c), FALSE)
    ELSE IF NotFoundDenied(<< >>, paramRef)
         THEN Outcome(<< >>, "no params found", calls, FALSE)
         ELSE Outcome(<< >>, "", calls, FALSE)

\* the lookup: GetResource by name, else ListResource by selector
Lookup(paramRef, pns, ans, calls) ==
    IF paramRef.Name # ""
    THEN LET c == Call("GetResource", pns, paramRef.Name, ans.getResource, << >>)
         IN  IF ans.getResource = "err"
             THEN Outcome(<< >>, "get failed", Append(calls, c), FALSE)
             ELSE Outcome(<< NamedParam >>, "", Append(calls, c), FALSE)
    ELSE LET listed == paramRef.Selector
             c == Call("ListResource", pns, "",
                       IF ans.listOK THEN "ok" ELSE "err",
                       IF ans.listOK THEN ans.items ELSE << >>)
             calls2 == IF listed THEN Append(calls, c) ELSE calls
             params == IF listed /\ ans.listOK THEN ans.items ELSE << >>
         IN  IF listed /\ ~ans.listOK
             THEN Outcome(<< >>, "list failed", calls2, FALSE)
             ELSE IF NotFoundDenied(params, paramRef)
                  THEN Outcome(<< >>, "no params found", calls2, FALSE)
                  ELSE Outcome(params, "", calls2, FALSE)

collectParams(hasClient, apiVersionOK, paramRef, namespace, ans) ==
    IF ~apiVersionOK
    THEN Outcome(<< >>, "cannot parse the parameter resource group version",
                 << >>, FALSE)
    ELSE IF ~hasClient
    THEN \* client.IsNamespaced on a nil interface value
         Outcome(<< >>, "", << >>, TRUE)
    ELSE LET c == Call("IsNamespaced", "", "", ans.isNamespaced, << >>)
             calls == << c >>
         IN  IF ans.isNamespaced = "err"
             THEN Outcome(<< >>, "failed to check if resource is namespaced or not",
                          calls, FALSE)
             ELSE LET pns == ParamsNamespace(ans.isNamespaced = "yes",
                                             paramRef, namespace)
                  IN  IF pns.err # ""
                      THEN Outcome(<< >>, pns.err, calls, FALSE)
                      ELSE Lookup(paramRef, pns.ns, ans, calls)

\* ---------------------------------------------------------------- state
VARIABLES
    pc,                 \* position of the call inside Process
    client,             \* h.client # nil
    resource,           \* the resource argument
    oldResource,        \* policyContext.OldResource()
    gvk,                \* policyContext.ResourceKind()
    rule,               \* the rule argument
    exceptions,         \* the exceptions argument
    generated,          \* Policy().GetStatus().ValidatingAdmissionPolicy.Generated
    expressions,        \* Message of each element of rule.Validation.CEL.Expressions
    object,             \* local object: non-nil
    oldObject,          \* local oldObject: non-nil
    ns,                 \* local ns
    name,               \* local name
    namespace,          \* local namespace
    attr,               \* the admission attributes record
    authorizer,         \* internal.NewAuthorizer(h.client, gvk)
    params,             \* local params
    validationResults,  \* local validationResults
    invocations,        \* the validator.Validate calls made so far
    calls,              \* the resource client calls made so far
    responses,          \* the []engineapi.RuleResponse returned
    returnedFrom,       \* the step whose return statement ended the call
    previous            \* the end of the previous call on the same arguments

vars ==
    << pc, client, resource, oldResource, gvk, rule, exceptions, generated,
       expressions, object, oldObject, ns, name, namespace, attr, authorizer,
       params, validationResults, invocations, calls, responses,
       returnedFrom, previous >>

inputs == << client, resource, oldResource, gvk, rule, exceptions, generated >>

NoAttr ==
    [object |-> FALSE, oldObject |-> FALSE, kind |-> NamespaceGVK,
     namespace |-> "", name |-> "", built |-> FALSE]
NoAuthorizer == [client |-> FALSE, kind |-> NamespaceGVK, built |-> FALSE]

\* what a finished call leaves to compare the next one with: how it ended
\* and the answers the collaborators gave it
Snapshot ==
    [pc |-> pc, returnedFrom |-> returnedFrom, responses |-> responses,
     calls |-> calls, invocations |-> invocations,
     validationResults |-> validationResults, expressions |-> expressions,
     attr |-> attr]
NoPrevious ==
    [pc |-> "", returnedFrom |-> "", responses |-> << >>, calls |-> << >>,
     invocations |-> << >>, validationResults |-> << >>,
     expressions |-> << >>, attr |-> NoAttr]

\* The collaborators are unchanged between two calls: asked the same
\* question again they give the answer the previous call got.
\* celutils.NewCompiler on the same expressions
CompilerAnswers(validations) ==
    IF /\ previous.pc # ""
       /\ previous.returnedFrom \notin {"exception", "generated"}
       /\ previous.expressions = validations
    THEN { previous.returnedFrom # "compile" }
    ELSE BOOLEAN

\* client.GetNamespace on the same name
GetNamespaceAnswers(n) ==
    LET known == { i \in 1 .. Len(previous.calls) :
                     /\ previous.calls[i].op = "GetNamespace"
                     /\ previous.calls[i].name = n }
    IN  IF known = {} THEN BOOLEAN
        ELSE { previous.calls[i].result = "ok" : i \in known }

\* admission.NewVersionedAttributes on the same attributes
VersionedAnswers(a) ==
    IF previous.attr = a
    THEN { previous.returnedFrom # "attributes" }
    ELSE BOOLEAN

\* the client calls cs repeat no call of the previous run with another answer
ConsistentCalls(cs) ==
    \A i \in 1 .. Len(cs) : \A j \in 1 .. Len(previous.calls) :
        ( /\ cs[i].op = previous.calls[j].op
          /\ cs[i].namespace = previous.calls[j].namespace
          /\ cs[i].name = previous.calls[j].name )
        => cs[i] = previous.calls[j]

\* validator.Validate on the same arguments; k is the number of the call
EvaluatorAnswers(x, k) ==
    LET known == { i \in 1 .. Len(previous.invocations) :
                     previous.invocations[i] = x }
    IN  IF known = {} THEN ResultsOf(k)
        ELSE { previous.validationResults[i] : i \in known }

Init ==
    /\ pc = "exception"
    /\ client \in BOOLEAN
    /\ resource \in Resources
    /\ oldResource \in OldResources
    /\ gvk \in GVKs
    /\ rule \in Rules
    /\ exceptions \in Exceptions
    /\ generated \in BOOLEAN
    /\ expressions \in ExpressionMessages
    /\ object = FALSE
    /\ oldObject = FALSE
    /\ ns = ""
    /\ name = ""
    /\ namespace = NilNamespace
    /\ attr = NoAttr
    /\ authorizer = NoAuthorizer
    /\ params = << >>
    /\ validationResults = << >>
    /\ invocations = << >>
    /\ calls = << >>
    /\ responses = << >>
    /\ returnedFrom = ""
    /\ previous = NoPrevious

\* return resource, <rs>
Return(rs) ==
    /\ pc' = "done"
    /\ responses' = rs
    /\ returnedFrom' = pc

\* control passes to the next step
Goto(step) ==
    /\ pc' = step
    /\ UNCHANGED << responses, returnedFrom >>

\* ---------------------------------------------------------------- Process
\* variant: the skip response does not carry the exception
MatchExceptionBare ==
    /\ pc = "exception"
    /\ IF exceptions = "matchNoKey"
       THEN Return(WithError("failed to compute exception key", "no key"))
       ELSE IF exceptions = "match"
            THEN Return(WithResponses(
                     RuleSkip("rule skipped due to policy exception")))
            ELSE Goto("generated")
    /\ UNCHANGED << inputs, previous, expressions, object, oldObject, ns, name,
                    namespace, attr, authorizer, params, validationResults,
                    invocations, calls >>

\* variant: the generated policy is looked at before the exception
MatchExceptionAfterGenerated ==
    /\ pc = "exception"
    /\ IF generated
       THEN Return(<< >>)
       ELSE IF exceptions = "matchNoKey"
            THEN Return(WithError("failed to compute exception key", "no key"))
            ELSE IF exceptions = "match"
                 THEN Return(WithResponses(WithException(
                          RuleSkip("rule skipped due to policy exception"))))
                 ELSE Goto("generated")
    /\ UNCHANGED << inputs, previous, expressions, object, oldObject, ns, name,
                    namespace, attr, authorizer, params, validationResults,
                    invocations, calls >>

\* the policy exception check
MatchException ==
    /\ pc = "exception"
    /\ IF exceptions = "matchNoKey"
       THEN Return(WithError("failed to compute exception key", "no key"))
       ELSE IF exceptions = "match"
            THEN Return(WithResponses(WithException(
                     RuleSkip("rule skipped due to policy exception"))))
            ELSE Goto("generated")
    /\ UNCHANGED << inputs, previous, expressions, object, oldObject, ns, name,
                    namespace, attr, authorizer, params, validationResults,
                    invocations, calls >>

\* the check for a generated ValidatingAdmissionPolicy
CheckGenerated ==
    /\ pc = "generated"
    /\ IF generated
       THEN Return(<< >>)
       ELSE Goto("request")
    /\ UNCHANGED << inputs, previous, expressions, object, oldObject, ns, name,
                    namespace, attr, authorizer, params, validationResults,
                    invocations, calls >>

\* variant: the coordinates are always read from the incoming resource
ReadRequestNewOnly ==
    /\ pc = "request"
    /\ oldObject' = oldResource.present
    /\ ns' = resource.namespace
    /\ name' = resource.name
    /\ object' = resource.present
    /\ Goto("compile")
    /\ UNCHANGED << inputs, previous, expressions, namespace, attr, authorizer, params,
                    validationResults, invocations, calls >>

\* object, oldObject, ns and name from the resource or the old resource
ReadRequest ==
    /\ pc = "request"
    /\ oldObject' = oldResource.present
    /\ IF ~resource.present
       THEN /\ ns' = oldResource.namespace
            /\ name' = oldResource.name
            /\ object' = FALSE
       ELSE /\ ns' = resource.namespace
            /\ name' = resource.name
            /\ object' = TRUE
    /\ Goto("compile")
    /\ UNCHANGED << inputs, previous, expressions, namespace, attr, authorizer, params,
                    validationResults, invocations, calls >>

\* variant: the rule message is put in front of every message
FillMessagesPrefix(msgs, ruleMessage) ==
    [i \in DOMAIN msgs |-> ruleMessage \o msgs[i]]

\* validations[i].Message = rule.Validation.Message where it is empty
FillMessages(msgs, ruleMessage) ==
    [i \in DOMAIN msgs |-> IF msgs[i] = "" THEN ruleMessage ELSE msgs[i]]

\* the default messages, celutils.NewCompiler and the Compile* calls
Compile ==
    /\ pc = "compile"
    /\ expressions' = FillMessages(expressions, rule.Message)
    /\ \E compiled \in CompilerAnswers(FillMessages(expressions,
                                                    rule.Message)) :
          IF ~compiled
          THEN Return(WithError("Error while creating composited compiler",
                                "compile"))
          ELSE Goto("namespace")
    /\ UNCHANGED << inputs, previous, object, oldObject, ns, name, namespace, attr,
                    authorizer, params, validationResults, invocations,
                    calls >>

\* variant: only the kind is compared
IsNamespaceKindLoose(k) == k.Kind = "Namespace"

\* gvk.Kind == "Namespace" && gvk.Version == "v1" && gvk.Group == ""
IsNamespaceKind(k) == k.Kind = "Namespace" /\ k.Version = "v1" /\ k.Group = ""

\* ns after the special case for a Namespace object
EffectiveNs(k, n) == IF IsNamespaceKind(k) THEN "" ELSE n

\* variant: a namespace object is made for every name, the empty one too
UnfetchedNamespaceAlways(n) == SynthesizedNamespace(n)

\* the namespace variable on the paths that make no client call: declared
\* nil, and set from the name only when there is a name and no client
UnfetchedNamespace(n) ==
    IF n # "" THEN SynthesizedNamespace(n) ELSE NilNamespace

\* the namespace of the request: unset for a Namespace, else fetched through
\* the client or, without a client, made from the name
ResolveNamespace ==
    /\ pc = "namespace"
    /\ LET n == EffectiveNs(gvk, ns)
       IN  /\ ns' = n
           /\ IF n # "" /\ client
              THEN \E fetched \in GetNamespaceAnswers(n) :
                    /\ calls' = Append(calls,
                           Call("GetNamespace", "", n,
                                IF fetched THEN "ok" ELSE "err", << >>))
                    /\ IF fetched
                       THEN /\ namespace' = FetchedNamespace(n)
                            /\ Goto("attributes")
                       ELSE /\ namespace' = NilNamespace
                            /\ Return(WithResponses(RuleError(
                                   "Error getting the resource's namespace",
                                   "get namespace failed")))
              ELSE /\ namespace' = UnfetchedNamespace(n)
                   /\ Goto("attributes")
                   /\ UNCHANGED calls
    /\ UNCHANGED << inputs, previous, expressions, object, oldObject, name, attr,
                    authorizer, params, validationResults, invocations >>

\* admission.NewAttributesRecord, NewVersionedAttributes, NewAuthorizer
BuildAttributes ==
    /\ pc = "attributes"
    /\ attr' = [object |-> object, oldObject |-> oldObject, kind |-> gvk,
                namespace |-> ns, name |-> name, built |-> TRUE]
    /\ \E versioned \in VersionedAnswers(attr') :
          IF ~versioned
          THEN /\ Return(WithError("error while creating versioned attributes",
                                     "versioned attributes"))
               /\ UNCHANGED authorizer
          ELSE /\ authorizer' = [client |-> client, kind |-> gvk, built |-> TRUE]
               /\ Goto(IF rule.hasParam THEN "params" ELSE "validate")
    /\ UNCHANGED << inputs, previous, expressions, object, oldObject, ns, name,
                    namespace, params, validationResults, invocations,
                    calls >>

\* params, err := collectParams(ctx, h.client, paramKind, paramRef, ns)
CollectParams ==
    /\ pc = "params"
    /\ \E ans \in ClientAnswers :
          LET out == collectParams(client, rule.apiVersionOK, rule.paramRef,
                                   ns, ans)
          IN  /\ ConsistentCalls(out.calls)
              /\ calls' = calls \o out.calls
              /\ IF out.panic
                 THEN Goto("panic") /\ UNCHANGED params
                 ELSE IF out.err # ""
                      THEN /\ Return(WithResponses(RuleError(
                                  "error in parameterized resource", out.err)))
                           /\ UNCHANGED params
                      ELSE /\ params' = out.params
                           /\ Goto(IF Len(out.params) = 0 THEN "aggregate"
                                   ELSE "fanout")
    /\ UNCHANGED << inputs, previous, expressions, object, oldObject, ns, name,
                    namespace, attr, authorizer, validationResults,
                    invocations >>

\* one validator.Validate call and the append of its result
Invocation(param) ==
    [validator |-> expressions, param |-> param, namespace |-> namespace,
     attr |-> attr, authorizer |-> authorizer]

\* variant: the loop over params ends at the first result with a Deny
ValidateParamStopAtDeny ==
    /\ pc = "fanout"
    /\ LET k == Len(validationResults) + 1
       IN  /\ invocations' = Append(invocations, Invocation(params[k]))
           /\ \E r \in EvaluatorAnswers(Invocation(params[k]), k) :
                 /\ validationResults' = Append(validationResults, r)
                 /\ Goto(IF k = Len(params)
                            \/ \E j \in 1 .. Len(r.Decisions) :
                                  r.Decisions[j].Action = ActionDeny
                         THEN "aggregate" ELSE "fanout")
    /\ UNCHANGED << inputs, previous, expressions, object, oldObject, ns, name,
                    namespace, attr, authorizer, params, calls >>

\* variant: a result is put in front of the earlier ones
ValidateParamPrepend ==
    /\ pc = "fanout"
    /\ LET k == Len(validationResults) + 1
       IN  /\ invocations' = Append(invocations, Invocation(params[k]))
           /\ \E r \in EvaluatorAnswers(Invocation(params[k]), k) :
                 validationResults' = << r >> \o validationResults
           /\ Goto(IF k = Len(params) THEN "aggregate" ELSE "fanout")
    /\ UNCHANGED << inputs, previous, expressions, object, oldObject, ns, name,
                    namespace, attr, authorizer, params, calls >>

\* one iteration of: for _, param := range params
ValidateParam ==
    /\ pc = "fanout"
    /\ LET k == Len(validationResults) + 1
       IN  /\ invocations' = Append(invocations, Invocation(params[k]))
           /\ \E r \in EvaluatorAnswers(Invocation(params[k]), k) :
                 validationResults' = Append(validationResults, r)
           /\ Goto(IF k = Len(params) THEN "aggregate" ELSE "fanout")
    /\ UNCHANGED << inputs, previous, expressions, object, oldObject, ns, name,
                    namespace, attr, authorizer, params, calls >>

\* variant: a rule without parameters is not evaluated
ValidateNoParamSkipped ==
    /\ pc = "validate"
    /\ Goto("aggregate")
    /\ UNCHANGED << inputs, previous, expressions, object, oldObject, ns, name,
                    namespace, attr, authorizer, params, validationResults,
                    invocations, calls >>

\* the rule has no parameters: one call with a nil parameter
ValidateNoParam ==
    /\ pc = "validate"
    /\ invocations' = Append(invocations, Invocation(NilParam))
    /\ \E r \in EvaluatorAnswers(Invocation(NilParam), 1) :
          validationResults' = Append(validationResults, r)
    /\ Goto("aggregate")
    /\ UNCHANGED << inputs, previous, expressions, object, oldObject, ns, name,
                    namespace, attr, authorizer, params, calls >>

\* the loop over validationResults and the final pass
AggregateResults ==
    /\ pc = "aggregate"
    /\ Return(Aggregate(validationResults))
    /\ UNCHANGED << inputs, previous, expressions, object, oldObject, ns, name,
                    namespace, attr, authorizer, params, validationResults,
                    invocations, calls >>

Next ==
    \/ MatchException
    \/ CheckGenerated
    \/ ReadRequest
    \/ Compile
    \/ ResolveNamespace
    \/ BuildAttributes
    \/ CollectParams
    \/ ValidateParam
    \/ ValidateNoParam
    \/ AggregateResults

Spec == Init /\ [][Next]_vars

\* the caller calls Process again with the same arguments, the rule either
\* as the first call left it or as it was given to the first call
Rerun ==
    /\ pc \in {"done", "panic"}
    /\ previous = NoPrevious
    /\ Len(params) <= MaxRerunParams
    /\ previous' = Snapshot
    /\ expressions' \in ExpressionMessages \cup { expressions }
    /\ pc' = "exception"
    /\ object' = FALSE
    /\ oldObject' = FALSE
    /\ ns' = ""
    /\ name' = ""
    /\ namespace' = NilNamespace
    /\ attr' = NoAttr
    /\ authorizer' = NoAuthorizer
    /\ params' = << >>
    /\ validationResults' = << >>
    /\ invocations' = << >>
    /\ calls' = << >>
    /\ responses' = << >>
    /\ returnedFrom' = ""
    /\ UNCHANGED inputs

NextTwice ==
    \/ Next
    \/ Rerun

SpecTwice == Init /\ [][NextTwice]_vars

TypeOK == pc \in {"exception", "generated", "request", "compile", "namespace",
                  "attributes", "params", "fanout", "validate", "aggregate",
                  "done", "panic"}

\* ---------------------------------------------------------------- properties
\* the call returned from the aggregation loop
Aggregated == pc = "done" /\ returnedFrom = "aggregate"

\* the verdict of a call that returned one
Verdict == responses[1]

IsDeny(d) == d.Action = ActionDeny
IsAdmitError(d) == d.Action = ActionAdmit /\ d.Evaluation = EvalError

\* positions in the scan: <<i, 0>> is result i itself, <<i, j>> its decision j
Positions(rs) ==
    { <<i, j>> : i \in 1 .. Len(rs), j \in 0 .. MaxDecisions + 1 } \cap
    { p \in (1 .. Len(rs)) \X (0 .. MaxDecisions + 1) :
        p[2] <= Len(rs[p[1]].Decisions) }
Before(p, q) == p[1] < q[1] \/ (p[1] = q[1] /\ p[2] < q[2])

EmptyAt(rs, p) == p[2] = 0 /\ rs[p[1]] = EmptyResult
DenyAt(rs, p) == p[2] > 0 /\ IsDeny(rs[p[1]].Decisions[p[2]])
AdmitErrorAt(rs, p) == p[2] > 0 /\ IsAdmitError(rs[p[1]].Decisions[p[2]])
TerminalAt(rs, p) == EmptyAt(rs, p) \/ DenyAt(rs, p) \/ AdmitErrorAt(rs, p)

\* C1 as stated: a Deny decision that no empty result precedes makes the
\* verdict Fail, also when an Admit decision with evaluation Error comes
\* before it
C1_DenyAlwaysFails ==
    Aggregated =>
        \A p \in Positions(validationResults) :
            ( /\ DenyAt(validationResults, p)
              /\ \A q \in Positions(validationResults) :
                    EmptyAt(validationResults, q) => ~Before(q, p) )
            => Verdict.status = "fail"

\* C1 (amended): a Deny decision that neither an empty result nor an Admit
\* decision with evaluation Error precedes makes the verdict Fail, whatever
\* the decisions and results after it are
C1_DenyPrecedence ==
    Aggregated =>
        \A p \in Positions(validationResults) :
            ( /\ DenyAt(validationResults, p)
              /\ \A q \in Positions(validationResults) :
                    (EmptyAt(validationResults, q)
                        \/ AdmitErrorAt(validationResults, q))
                    => ~Before(q, p) )
            => /\ Len(responses) = 1
               /\ Verdict.status = "fail"

\* a Deny after plain admits, with an empty result and an Admit/Error
\* decision behind it, and the verdict is Fail
C1_Witness ==
    /\ Aggregated
    /\ Len(validationResults) = 2
    /\ Len(validationResults[1].Decisions) = 2
    /\ ~IsDeny(validationResults[1].Decisions[1])
    /\ IsDeny(validationResults[1].Decisions[2])
    /\ Len(validationResults[2].Decisions) = 1
    /\ IsAdmitError(validationResults[2].Decisions[1])
    /\ Verdict.status = "fail"

\* the parameters the evaluator was called with, in call order
InvokedParams == [k \in 1 .. Len(invocations) |-> invocations[k].param]

HasDeny(r) == \E j \in 1 .. Len(r.Decisions) : IsDeny(r.Decisions[j])

\* the successful ListResource call of this run, if there is one
ListCalls ==
    { i \in 1 .. Len(calls) :
        calls[i].op = "ListResource" /\ calls[i].result = "ok" }
\* the selector matched the objects in items and resolution succeeded
Listed(items) ==
    /\ \E i \in ListCalls : calls[i].items = items
    /\ ~(pc = "done" /\ returnedFrom = "params")
    /\ pc \in {"aggregate", "done"}

\* C2 as stated: N invocations, in listing order, unless an earlier result
\* holds a Deny, and after such a result no further invocation is made
C2_StopsAtDeny ==
    /\ \A items \in ParamLists :
          ( /\ Listed(items)
            /\ \A i \in 1 .. Len(validationResults) :
                  ~HasDeny(validationResults[i]) )
          => InvokedParams = items
    /\ \A k \in 1 .. Len(invocations) :
          \A i \in 1 .. (k - 1) : ~HasDeny(validationResults[i])

\* C2 (amended): when the selector resolves to N objects the evaluator is
\* invoked exactly N times, in listing order, also when an earlier
\* invocation's result holds a Deny: every invocation is made before any
\* result is looked at
C2_InvokesAll ==
    /\ \A items \in ParamLists : Listed(items) => InvokedParams = items
    /\ pc \in {"aggregate", "done"} => Len(validationResults) = Len(invocations)

\* two listed objects, a Deny in the first result, and two invocations
C2_Witness ==
    /\ Aggregated
    /\ Listed(<< 2, 1 >>)
    /\ HasDeny(validationResults[1])
    /\ InvokedParams = << 2, 1 >>
    /\ Verdict.status = "fail"

\* C3 as stated: with a matching exception the verdict is always Skip,
\* carrying the exception, and the evaluator is not invoked
C3_ExceptionAlwaysSkips ==
    exceptions # "none" =>
        /\ invocations = << >>
        /\ pc = "done" =>
              /\ Len(responses) = 1
              /\ Verdict.status = "skip"
              /\ Verdict.exception

\* C3 (amended): with a matching exception the verdict is Skip, carrying the
\* exception, unless the key of the exception cannot be computed, and then it
\* is Error; either way the call ends there: no client call and no evaluator
\* invocation
C3_ExceptionShortCircuit ==
    exceptions # "none" =>
        /\ invocations = << >>
        /\ calls = << >>
        /\ pc \in {"exception", "done"}
        /\ pc = "done" =>
              /\ Len(responses) = 1
              /\ returnedFrom = "exception"
              /\ exceptions = "match" =>
                    Verdict.status = "skip" /\ Verdict.exception
              /\ exceptions = "matchNoKey" => Verdict.status = "error"

\* an exception matches a request that would otherwise have been evaluated
C3_Witness ==
    /\ exceptions = "match"
    /\ ~generated
    /\ pc = "done"
    /\ Verdict.status = "skip"
    /\ Verdict.exception

Statuses == {"pass", "fail", "skip", "error"}

C5_EmptyAlwaysSkips ==
    ( /\ Aggregated
      /\ \E i \in 1 .. Len(validationResults) :
            validationResults[i] = EmptyResult )
    => Verdict.status = "skip"

\* C5 (amended): an empty result that no Deny decision and no Admit decision
\* with evaluation Error precedes makes the verdict Skip, whatever follows
\* it; a Deny or an Admit/Error in an earlier result wins over it
C5_EmptyPrecedence ==
    Aggregated =>
        \A p \in Positions(validationResults) :
            ( /\ EmptyAt(validationResults, p)
              /\ \A q \in Positions(validationResults) :
                    (DenyAt(validationResults, q)
                        \/ AdmitErrorAt(validationResults, q))
                    => ~Before(q, p) )
            => /\ Len(responses) = 1
               /\ Verdict.status = "skip"

\* an empty result behind a passing one and the verdict is Skip
C5_Witness ==
    /\ Aggregated
    /\ Len(validationResults) = 2
    /\ Len(validationResults[1].Decisions) > 0
    /\ validationResults[2] = EmptyResult
    /\ Verdict.status = "skip"

\* the positions of the scan at which the loop returns
Terminals(rs) == { p \in Positions(rs) : TerminalAt(rs, p) }
FirstTerminal(rs) ==
    CHOOSE p \in Terminals(rs) :
        \A q \in Terminals(rs) : q = p \/ Before(p, q)
DecisionAt(rs, p) == rs[p[1]].Decisions[p[2]]

\* C6: the verdict is fixed by the first terminal item of the scan (results
\* in invocation order, decisions in order inside a result): an empty result
\* gives Skip, a Deny gives Fail with its message, an Admit with evaluation
\* Error gives Error with its message; the verdict is Pass exactly when no
\* result is empty and every decision is an Admit without Error
C6_FirstApplicableWins ==
    Aggregated =>
        LET rs == validationResults
        IN  /\ Len(responses) = 1
            /\ IF Terminals(rs) = {}
               THEN Verdict.status = "pass"
               ELSE LET p == FirstTerminal(rs)
                    IN  /\ EmptyAt(rs, p) => Verdict.status = "skip"
                        /\ DenyAt(rs, p) =>
                              /\ Verdict.status = "fail"
                              /\ Verdict.message = DecisionAt(rs, p).Message
                        /\ AdmitErrorAt(rs, p) =>
                              /\ Verdict.status = "error"
                              /\ Verdict.message = DecisionAt(rs, p).Message
            /\ Verdict.status = "pass" <=>
                  \A i \in 1 .. Len(rs) :
                      /\ rs[i] # EmptyResult
                      /\ \A j \in 1 .. Len(rs[i].Decisions) :
                            /\ rs[i].Decisions[j].Action = ActionAdmit
                            /\ rs[i].Decisions[j].Evaluation # EvalError

\* the first terminal item is the second decision of the second result, an
\* Admit/Error in front of nothing but plain admits
C6_Witness ==
    /\ Aggregated
    /\ Len(validationResults) = 2
    /\ Len(validationResults[1].Decisions) = 2
    /\ Len(validationResults[2].Decisions) = 2
    /\ Terminals(validationResults) # {}
    /\ FirstTerminal(validationResults) = << 2, 2 >>
    /\ AdmitErrorAt(validationResults, << 2, 2 >>)
    /\ Verdict.status = "error"
    /\ Verdict.message = "d22"

\* C7 as stated: with an empty namespace name the evaluator gets a
\* synthesized, non-nil namespace object with an empty name
C7_EmptyNameSynthesized ==
    \A k \in 1 .. Len(invocations) :
        invocations[k].attr.namespace = "" =>
            /\ invocations[k].namespace.kind # "nil"
            /\ invocations[k].namespace.name = ""

GetNamespaceCalls ==
    { i \in 1 .. Len(calls) : calls[i].op = "GetNamespace" }

\* C7 (amended): with an empty namespace name (cluster-scoped request, or a
\* request for a core/v1 Namespace) the namespace handed to every evaluator
\* invocation is the nil pointer: none is synthesized and none is fetched
C7_EmptyNameNil ==
    \A k \in 1 .. Len(invocations) :
        invocations[k].attr.namespace = "" =>
            /\ invocations[k].namespace = NilNamespace
            /\ GetNamespaceCalls = {}

\* the evaluator is called for a Namespace object that carries a namespace
C7_Witness ==
    /\ Len(invocations) > 0
    /\ gvk = NamespaceGVK
    /\ resource.present
    /\ resource.namespace = "a"
    /\ invocations[1].attr.namespace = ""
    /\ invocations[1].namespace = NilNamespace

\* the call went through the namespace resolution
NamespaceResolved ==
    \/ pc \in {"attributes", "params", "fanout", "validate", "aggregate",
               "panic"}
    \/ pc = "done"
         /\ returnedFrom \in {"namespace", "attributes", "params", "aggregate"}

\* the namespace the request carries
RequestNs ==
    IF resource.present THEN resource.namespace ELSE oldResource.namespace

LookupCalls ==
    { i \in 1 .. Len(calls) : calls[i].op \in {"GetResource", "ListResource"} }

\* the answer of the IsNamespaced call of this run, "none" without a call
IsNamespacedAnswer ==
    IF \E i \in 1 .. Len(calls) : calls[i].op = "IsNamespaced"
    THEN calls[CHOOSE i \in 1 .. Len(calls) :
                   calls[i].op = "IsNamespaced"].result
    ELSE "none"

ParamsDone ==
    /\ rule.hasParam
    /\ \/ pc \in {"fanout", "aggregate"}
       \/ pc = "done" /\ returnedFrom \in {"params", "aggregate"}

ScopingErrors ==
    { "cannot use namespaced paramRef to match cluster-scoped resources",
      "paramRef.namespace must not be provided for a cluster-scoped paramKind" }

\* the two illegal combinations of scope, override and request namespace
IllegalScoping ==
    \/ /\ IsNamespacedAnswer = "yes"
       /\ rule.paramRef.Namespace = ""
       /\ ns = ""
    \/ /\ IsNamespacedAnswer = "no"
       /\ rule.paramRef.Namespace # ""

\* C9: with a well-formed API version and an answered IsNamespaced check,
\* collectParams fails on scoping grounds exactly when the kind is
\* namespace-scoped and both the override and the request namespace are
\* empty, or the kind is cluster-scoped and an override is set; then no
\* GetResource or ListResource call is made, the verdict is Error and the
\* evaluator is not invoked
C9_ScopingLegality ==
    (ParamsDone /\ IsNamespacedAnswer \in {"yes", "no"}) =>
        /\ IllegalScoping <=>
              /\ pc = "done"
              /\ returnedFrom = "params"
              /\ Verdict.cause \in ScopingErrors
        /\ IllegalScoping =>
              /\ LookupCalls = {}
              /\ Len(responses) = 1
              /\ Verdict.status = "error"
              /\ invocations = << >>

\* a cluster-scoped kind with a namespace override, refused
C9_Witness ==
    /\ ParamsDone
    /\ IsNamespacedAnswer = "no"
    /\ rule.paramRef.Namespace = "pns"
    /\ rule.paramRef.Name = "cfg"
    /\ pc = "done"
    /\ Verdict.status = "error"
    /\ LookupCalls = {}

\* the lookup found nothing: an empty list, or neither name nor selector
NothingFound ==
    /\ rule.paramRef.Name = ""
    /\ \/ ~rule.paramRef.Selector
       \/ \E i \in ListCalls : calls[i].items = << >>

\* C10: when the rule declares parameters, the lookup finds nothing (the
\* selector matches no object, or the reference has neither name nor
\* selector) and the not-found action is Deny, collectParams fails, the
\* verdict is Error and the evaluator is not invoked
C10_NotFoundDeny ==
    ( /\ ParamsDone
      /\ IsNamespacedAnswer \in {"yes", "no"}
      /\ ~IllegalScoping
      /\ NothingFound
      /\ rule.paramRef.ParameterNotFoundAction = "Deny" )
    => /\ pc = "done"
       /\ returnedFrom = "params"
       /\ Len(responses) = 1
       /\ Verdict.status = "error"
       /\ Verdict.cause = "no params found"
       /\ invocations = << >>

\* a selector that matches nothing under the Deny action
C10_Witness ==
    /\ ParamsDone
    /\ rule.paramRef.Selector
    /\ rule.paramRef.Name = ""
    /\ \E i \in ListCalls : calls[i].items = << >>
    /\ rule.paramRef.ParameterNotFoundAction = "Deny"
    /\ pc = "done"
    /\ Verdict.status = "error"

\* C11: when the rule declares parameters, the lookup finds nothing (the
\* selector matches no object, or the reference has neither name nor
\* selector) and the not-found action is Allow or unset, collectParams
\* succeeds with an empty set, the evaluator is not invoked, and the verdict
\* is Pass, not Skip
C11_NotFoundAllow ==
    ( /\ ParamsDone
      /\ IsNamespacedAnswer \in {"yes", "no"}
      /\ ~IllegalScoping
      /\ NothingFound
      /\ rule.paramRef.ParameterNotFoundAction \in {"nil", "Allow"} )
    => /\ params = << >>
       /\ invocations = << >>
       /\ validationResults = << >>
       /\ pc \in {"aggregate", "done"}
       /\ pc = "done" =>
             /\ returnedFrom = "aggregate"
             /\ Len(responses) = 1
             /\ Verdict.status = "pass"

\* a selector that matches nothing, no not-found action, and a Pass
C11_Witness ==
    /\ ParamsDone
    /\ rule.paramRef.Selector
    /\ rule.paramRef.Name = ""
    /\ \E i \in ListCalls : calls[i].items = << >>
    /\ rule.paramRef.ParameterNotFoundAction = "nil"
    /\ pc = "done"
    /\ invocations = << >>
    /\ Verdict.status = "pass"

\* the client calls of this run that failed
FailedCalls == { i \in 1 .. Len(calls) : calls[i].result = "err" }

\* the call went through collectParams (it returned or it panicked)
AfterParams ==
    /\ rule.hasParam
    /\ \/ pc \in {"fanout", "aggregate", "panic"}
       \/ pc = "done" /\ returnedFrom \in {"params", "aggregate"}

\* C12: when GetNamespace fails, or a step of the parameter resolution fails
\* (malformed API version, IsNamespaced, GetResource, ListResource), the
\* call returns an Error verdict - not Pass, Fail or Skip - and the
\* evaluator is not invoked
C12_ExternalFailureIsError ==
    (FailedCalls # {} \/ (AfterParams /\ ~rule.apiVersionOK)) =>
        /\ pc = "done"
        /\ returnedFrom \in {"namespace", "params"}
        /\ Len(responses) = 1
        /\ Verdict.status = "error"
        /\ invocations = << >>

\* a failed ListResource call after a namespace fetch that worked
C12_Witness ==
    /\ \E i \in FailedCalls : calls[i].op = "ListResource"
    /\ \E i \in GetNamespaceCalls : calls[i].result = "ok"
    /\ pc = "done"
    /\ Verdict.status = "error"

ParamClientCalls ==
    { i \in 1 .. Len(calls) :
        calls[i].op \in {"IsNamespaced", "GetResource", "ListResource"} }

C14_GeneratedOrSkip ==
    generated =>
        /\ calls = << >>
        /\ invocations = << >>
        /\ pc = "done" =>
              IF exceptions = "none"
              THEN responses = << >>
              ELSE /\ Len(responses) = 1
                   /\ Verdict.status = "skip"
                   /\ Verdict.exception

\* C14 (amended): when no exception matches and the policy has a generated
\* ValidatingAdmissionPolicy, Process returns an empty response list with no
\* namespace fetch, no parameter resolution and no evaluator invocation;
\* when an exception matches as well, the exception check wins: the outcome
\* is the Skip of the exception, or Error when its key cannot be computed,
\* not the empty response
C14_GeneratedShortCircuit ==
    generated =>
        /\ calls = << >>
        /\ invocations = << >>
        /\ pc \in {"exception", "generated", "done"}
        /\ pc = "done" =>
              IF exceptions = "none"
              THEN responses = << >> /\ returnedFrom = "generated"
              ELSE /\ returnedFrom = "exception"
                   /\ Len(responses) = 1
                   /\ exceptions = "match" =>
                         Verdict.status = "skip" /\ Verdict.exception
                   /\ exceptions = "matchNoKey" => Verdict.status = "error"

\* a generated policy and a matching exception: the Skip is returned
C14_Witness ==
    /\ generated
    /\ exceptions = "match"
    /\ pc = "done"
    /\ Len(responses) = 1
    /\ Verdict.status = "skip"

\* C16: when the parameter resolution succeeds with p1..pN the evaluator is
\* invoked with p1, p2, .. in that order and with nothing else, once each by
\* the end of the loop, every time with the same attributes, namespace and
\* authorizer, and the k-th result the aggregation scans is the result of
\* the k-th invocation
C16_OrderPreservingFanout ==
    rule.hasParam =>
        /\ \A k \in 1 .. Len(invocations) :
              /\ k <= Len(params)
              /\ invocations[k].param = params[k]
              /\ invocations[k].attr = attr
              /\ invocations[k].namespace = namespace
              /\ invocations[k].authorizer = authorizer
        /\ invocations # << >> => (attr.built /\ authorizer.built)
        /\ (pc = "aggregate" \/ Aggregated) =>
              /\ Len(invocations) = Len(params)
              /\ Len(validationResults) = Len(params)
              /\ \A k \in 1 .. Len(validationResults) :
                    \A j \in 1 .. Len(validationResults[k].Decisions) :
                        validationResults[k].Decisions[j].Message
                            = Labels[k][j]

\* two listed parameters, two invocations in listing order, and the verdict
\* taken from the result of the second one
C16_Witness ==
    /\ Aggregated
    /\ params = << 2, 1 >>
    /\ InvokedParams = << 2, 1 >>
    /\ Len(validationResults) = 2
    /\ Len(validationResults[1].Decisions) = 1
    /\ Len(validationResults[2].Decisions) = 1
    /\ Verdict.status = "fail"
    /\ Verdict.message = "d21"

\* the namespace the lookup has to use when the scoping check passes
ExpectedLookupNs ==
    IF IsNamespacedAnswer = "yes"
    THEN IF rule.paramRef.Namespace # "" THEN rule.paramRef.Namespace ELSE ns
    ELSE ""

\* C17: when the scoping check passes collectParams makes at most one
\* lookup call, in the override namespace if there is one, else the request
\* namespace, for a namespace-scoped kind and in the empty namespace for a
\* cluster-scoped kind; with a name it is one GetResource call for that name
\* that gives exactly one parameter, with no ListResource call even if a
\* selector is set and no not-found check; ListResource is called exactly
\* when the name is empty and a selector is set
C17_LookupTarget ==
    (ParamsDone /\ IsNamespacedAnswer \in {"yes", "no"} /\ ~IllegalScoping) =>
        /\ Cardinality(LookupCalls) <= 1
        /\ \A i \in LookupCalls : calls[i].namespace = ExpectedLookupNs
        /\ rule.paramRef.Name # "" =>
              /\ Cardinality(LookupCalls) = 1
              /\ \A i \in LookupCalls :
                    /\ calls[i].op = "GetResource"
                    /\ calls[i].name = rule.paramRef.Name
                    /\ calls[i].result = "ok" =>
                          /\ Len(params) = 1
                          /\ ~(pc = "done" /\ returnedFrom = "params")
        /\ (rule.paramRef.Name = "" /\ rule.paramRef.Selector) <=>
              \E i \in LookupCalls : calls[i].op = "ListResource"

\* name and selector both set under the Deny action, an override on a
\* namespace-scoped kind: one GetResource call in the override namespace
C17_Witness ==
    /\ ParamsDone
    /\ IsNamespacedAnswer = "yes"
    /\ rule.paramRef.Name = "cfg"
    /\ rule.paramRef.Selector
    /\ rule.paramRef.Namespace = "pns"
    /\ rule.paramRef.ParameterNotFoundAction = "Deny"
    /\ ns = "a"
    /\ Len(params) = 1
    /\ \E i \in LookupCalls :
          calls[i].op = "GetResource" /\ calls[i].namespace = "pns"

\* C18: no step of a call changes the message of a validation expression of
\* the caller's rule
C18_RuleUnchanged == [][expressions' = expressions]_vars

\* the object the coordinates are read from
Source == IF resource.present THEN resource ELSE oldResource

\* the call went through the reading of the request
AfterRead ==
    /\ pc \notin {"exception", "generated", "request"}
    /\ ~(pc = "done" /\ returnedFrom \in {"exception", "generated"})

\* C19 as stated: the namespace and the name used for the namespace fetch,
\* the attributes and the parameter scoping are those of the old object
\* when the incoming object is absent and those of the incoming object
\* otherwise; the object slot is absent exactly on delete and the old-object
\* slot exactly when there is no old resource
C19_SourceCoordinates ==
    /\ AfterRead =>
          /\ name = Source.name
          /\ object = resource.present
          /\ oldObject = oldResource.present
    /\ attr.built =>
          /\ attr.namespace = Source.namespace
          /\ attr.name = Source.name
          /\ attr.object = resource.present
          /\ attr.oldObject = oldResource.present
    /\ \A i \in GetNamespaceCalls : calls[i].name = Source.namespace
    /\ \A i \in LookupCalls :
          (IsNamespacedAnswer = "yes" /\ rule.paramRef.Namespace = "")
              => calls[i].namespace = Source.namespace

\* the namespace of the source object, emptied for a core/v1 Namespace
SourceNs == IF gvk = NamespaceGVK THEN "" ELSE Source.namespace

\* C19 (amended): as stated, except that for a request of kind core/v1
\* Namespace the namespace used for the attributes and the parameter scoping
\* is empty, whatever the source object carries, and no namespace is fetched
C19_SourceCoordinatesUnlessNamespace ==
    /\ AfterRead =>
          /\ name = Source.name
          /\ object = resource.present
          /\ oldObject = oldResource.present
    /\ attr.built =>
          /\ attr.namespace = SourceNs
          /\ attr.name = Source.name
          /\ attr.object = resource.present
          /\ attr.oldObject = oldResource.present
    /\ \A k \in 1 .. Len(invocations) :
          /\ invocations[k].attr.object = resource.present
          /\ invocations[k].attr.oldObject = oldResource.present
          /\ invocations[k].attr.namespace = SourceNs
          /\ invocations[k].attr.name = Source.name
    /\ \A i \in GetNamespaceCalls :
          calls[i].name = SourceNs /\ SourceNs # ""
    /\ \A i \in LookupCalls :
          (IsNamespacedAnswer = "yes" /\ rule.paramRef.Namespace = "")
              => calls[i].namespace = SourceNs /\ SourceNs # ""

\* a delete of a namespaced object: the namespace of the old object is
\* fetched, is in the attributes and is where the parameters are listed
C19_Witness ==
    /\ ~resource.present
    /\ oldResource.present
    /\ Len(invocations) > 0
    /\ ~invocations[1].attr.object
    /\ invocations[1].attr.oldObject
    /\ invocations[1].attr.namespace = "b"
    /\ invocations[1].attr.name = "old"
    /\ \E i \in GetNamespaceCalls : calls[i].name = "b"
    /\ \E i \in LookupCalls :
          calls[i].op = "ListResource" /\ calls[i].namespace = "b"

\* C20: a handler with a nil client makes no client call, makes the
\* namespace object from a non-empty name itself, never fails in a call on
\* the client, and every call that is not cut short by a generated policy
\* returns one verdict, for rules with parameters too
C20_NilClientEndsInVerdict ==
    ~client =>
        /\ calls = << >>
        /\ pc # "panic"
        /\ (NamespaceResolved /\ ns # "") =>
              namespace = SynthesizedNamespace(ns)
        /\ (pc = "done" /\ ~(exceptions = "none" /\ generated)) =>
              Len(responses) = 1 /\ Verdict.status \in Statuses

\* the second call has ended
SecondEnded == previous # NoPrevious /\ pc \in {"done", "panic"}

\* C15: a second call on the same rule, request, exceptions and policy
\* status, against collaborators that answer as they answered the first
\* call, ends as the first call did: the same verdict with the same message
\* (or no verdict where the first call gave none), with the rule as given to
\* the first call and with the rule as the first call left it
C15_Idempotent ==
    SecondEnded =>
        /\ pc = previous.pc
        /\ responses = previous.responses
        /\ returnedFrom = previous.returnedFrom

\* a second call on the rule the first call changed, with a resolved
\* parameter, gives the Fail of the first call again
C15_Witness ==
    /\ SecondEnded
    /\ pc = "done"
    /\ expressions # << "", "own" >>
    /\ rule.hasParam
    /\ Len(previous.invocations) = 1
    /\ Len(invocations) = 1
    /\ Len(responses) = 1
    /\ Verdict.status = "fail"
    /\ responses = previous.responses

====
